---- MODULE Spec2Model ----
(***************************************************************************)
(* Model of majsoulrpa's browser driver (src/majsoulrpa/_impl/browser.py)  *)
(* and of the match loop of examples/moqie.py.                             *)
(*                                                                         *)
(* Four specifications share the variables:                                *)
(*   Spec              DesktopBrowser: construction, press, press_hotkey,  *)
(*                     scroll, click_region and the point sampler          *)
(*   FairSpec          Spec plus progress and fair draws in the sampler    *)
(*   SpecWindow        BrowserBase.is_singleton                            *)
(*   SpecPresentation  the caller's match loop against a Presentation      *)
(*                                                                         *)
(* Engine calls (playwright keyboard/mouse, time.sleep) are recorded in    *)
(* `calls`, the log of the calls made by the most recent operation.        *)
(* Floats drawn by random.normalvariate are represented in quarter units   *)
(* (the integer v stands for the float v/4), so that round() has ties and  *)
(* non-ties to decide.  edge_sigma is represented in tenths.               *)
(***************************************************************************)
EXTENDS Integers, Sequences, FiniteSets

VARIABLES constructed, viewport_size, opname, args, outcome, calls,
          pc, p, x, y,
          platform, allWindows, window,
          presentation, variant, new_presentation, operation_list, callerPc

driverVars == <<constructed, viewport_size, opname, args, outcome, calls,
                pc, p, x, y>>
windowVars == <<platform, allWindows, window>>
presVars   == <<presentation, variant, new_presentation, operation_list,
                callerPc>>
vars == <<driverVars, windowVars, presVars>>

----------------------------------------------------------------------------
(* Bounds of the model *)

MaxExtent == 3
MaxClicks == 3
MaxKeys == 2
DrawWindow == 6
MaxWindows == 3
MaxPresentations == 4

----------------------------------------------------------------------------
(* Module constants of browser.py *)

STD_WIDTH == 1920
STD_HEIGHT == 1080
MIN_WIDTH == (STD_WIDTH * 2) \div 3
MIN_HEIGHT == (STD_HEIGHT * 2) \div 3
MAX_WIDTH == STD_WIDTH * 2
MAX_HEIGHT == STD_HEIGHT * 2

Abs(n) == IF n < 0 THEN -n ELSE n

RECURSIVE Gcd(_, _)
Gcd(a, b) == IF b = 0 THEN a ELSE Gcd(b, a % b)

(* fractions.Fraction(n, d): the pair in lowest terms with a positive      *)
(* denominator; d = 0 raises ZeroDivisionError                             *)
Fraction(n, d) ==
    IF d = 0 THEN <<"ZeroDivisionError">>
    ELSE LET g == Gcd(Abs(n), Abs(d))
             s == IF d < 0 THEN -1 ELSE 1
         IN  <<(s * n) \div g, (s * d) \div g>>

ASPECT_RATIO == Fraction(16, 9)

NoValue == <<>>
NoArgs == [none |-> TRUE]

----------------------------------------------------------------------------
(* DesktopBrowser._validate_viewport_size *)

LowerBoundFails_Exclusive(width, height) ==
    width <= MIN_WIDTH \/ height <= MIN_HEIGHT

LowerBoundFails(width, height) ==
    width < MIN_WIDTH \/ height < MIN_HEIGHT

validate_viewport_size(width, height) ==
    IF LowerBoundFails(width, height) THEN FALSE
    ELSE IF width > MAX_WIDTH \/ height > MAX_HEIGHT THEN FALSE
    ELSE IF Fraction(width, height) # ASPECT_RATIO THEN FALSE
    ELSE TRUE

(* DesktopBrowser.__init__ *)
ViewportWidths ==
    {-MIN_WIDTH, 0, MIN_WIDTH - 1, MIN_WIDTH, MIN_WIDTH + 1, STD_WIDTH,
     STD_WIDTH + 16, 2560, MAX_WIDTH - 16, MAX_WIDTH, MAX_WIDTH + 1,
     MAX_WIDTH + 16}
ViewportHeights ==
    {-MIN_HEIGHT, 0, MIN_HEIGHT - 1, MIN_HEIGHT, MIN_HEIGHT + 1, STD_HEIGHT,
     STD_HEIGHT + 9, 1440, MAX_HEIGHT - 9, MAX_HEIGHT, MAX_HEIGHT + 1,
     MAX_HEIGHT + 9}

Construct(width, height) ==
    /\ constructed = "no"
    /\ opname' = "__init__"
    /\ args' = [width |-> width, height |-> height]
    /\ IF ~validate_viewport_size(width, height)
       THEN /\ constructed' = "failed"
            /\ outcome' = "RuntimeError: viewport"
            /\ calls' = <<>>
            /\ UNCHANGED viewport_size
       ELSE /\ constructed' = "yes"
            /\ viewport_size' = [width |-> width, height |-> height]
            /\ outcome' = "returned"
            /\ calls' = << <<"chromium.launch">>,
                           <<"browser.new_context", width, height>>,
                           <<"context.new_page">>, <<"page.goto">> >>
    /\ UNCHANGED <<pc, p, x, y, windowVars, presVars>>

Ready == constructed = "yes" /\ pc = "idle"

----------------------------------------------------------------------------
(* DesktopBrowser.press / press_hotkey.  A str is the sequence of its      *)
(* characters; keys is tagged with isinstance(keys, str).                  *)

KeyNames == { <<"a">>, <<"U", "p">>, <<"F", "1", "2">> }

SeqsUpTo(S, n) == UNION { [1..k -> S] : k \in 0..n }

KeyLists == SeqsUpTo(KeyNames, MaxKeys)

(* iterating a str yields its one-character strings *)
Iterate(keys) ==
    IF keys.isStr THEN [i \in 1..Len(keys.val) |-> <<keys.val[i]>>]
    ELSE keys.val

PressCalls_NoStrCheck(keys) ==
    [i \in 1..Len(Iterate(keys)) |-> <<"keyboard.press", Iterate(keys)[i]>>]

PressCalls(keys) ==
    IF keys.isStr THEN << <<"keyboard.press", keys.val>> >>
    ELSE [i \in 1..Len(Iterate(keys)) |->
              <<"keyboard.press", Iterate(keys)[i]>>]

Press(keys) ==
    /\ Ready
    /\ opname' = "press"
    /\ args' = [keys |-> keys]
    /\ calls' = PressCalls(keys)
    /\ outcome' = "returned"
    /\ UNCHANGED <<constructed, viewport_size, pc, p, x, y,
                   windowVars, presVars>>

(* "+".join(args) *)
RECURSIVE Join(_)
Join(ks) ==
    IF Len(ks) = 0 THEN <<>>
    ELSE IF Len(ks) = 1 THEN ks[1]
    ELSE ks[1] \o <<"+">> \o Join(Tail(ks))

PressHotkey(ks) ==
    /\ Ready
    /\ opname' = "press_hotkey"
    /\ args' = [keys |-> ks]
    /\ calls' = << <<"keyboard.press", Join(ks)>> >>
    /\ outcome' = "returned"
    /\ UNCHANGED <<constructed, viewport_size, pc, p, x, y,
                   windowVars, presVars>>

----------------------------------------------------------------------------
(* DesktopBrowser.scroll *)

WHEEL_DELTA == 58 * 2

(* the value of `clicks` when the loop is reached *)
ScrollCount_NoAbs(clicks) == clicks

ScrollCount(clicks) == IF clicks > 0 THEN clicks ELSE Abs(clicks)

(* range(n) runs max(n, 0) times *)
RangeLen(n) == IF n > 0 THEN n ELSE 0

ScrollCalls(clicks) ==
    IF clicks = 0 THEN <<>>
    ELSE LET delta == IF clicks > 0 THEN WHEEL_DELTA ELSE -WHEEL_DELTA
             wheel == <<"mouse.wheel", 0, delta>>
             n     == RangeLen(ScrollCount(clicks) - 1)
         IN  [i \in 1..(1 + 2 * n) |->
                 IF i % 2 = 1 THEN wheel ELSE <<"time.sleep">>]

Scroll(clicks) ==
    /\ Ready
    /\ opname' = "scroll"
    /\ args' = [clicks |-> clicks]
    /\ calls' = ScrollCalls(clicks)
    /\ outcome' = "returned"
    /\ UNCHANGED <<constructed, viewport_size, pc, p, x, y,
                   windowVars, presVars>>

----------------------------------------------------------------------------
(* DesktopBrowser._validate_region *)

ExtendsPast_LeftOnly(left, top, width, height) ==
    \/ left >= viewport_size.width
    \/ top >= viewport_size.height

ExtendsPast(left, top, width, height) ==
    \/ left >= viewport_size.width
    \/ top >= viewport_size.height
    \/ width > (viewport_size.width - left)
    \/ height > (viewport_size.height - top)

validate_region(left, top, width, height) ==
    IF left < 0 \/ top < 0 THEN FALSE
    ELSE IF width <= 0 \/ height <= 0 THEN FALSE
    ELSE IF ExtendsPast(left, top, width, height) THEN FALSE
    ELSE TRUE

----------------------------------------------------------------------------
(* _get_random_point_in_region and its inner _impl_get_point *)

(* round(p) of a float p = v/4: to the nearest integer, ties to even *)
Round(v) ==
    LET q == v \div 4
        r == v % 4
    IN  IF r < 2 THEN q
        ELSE IF r > 2 THEN q + 1
        ELSE IF q % 2 = 0 THEN q ELSE q + 1

(* the loop's exit test, line 44 *)
Inside_Closed(distance_origin, length_region, r) ==
    distance_origin <= r /\ r <= (distance_origin + length_region)

Inside(distance_origin, length_region, r) ==
    distance_origin < r /\ r < (distance_origin + length_region)

(* Values random.normalvariate(mu, sigma) can return, in quarter units:    *)
(* only mu when sigma = 0 (length_region = 0); otherwise every float has   *)
(* positive density, of which the model keeps mu and the floats within     *)
(* DrawWindow quarter units of either end of the region.                   *)
Draws(distance_origin, length_region) ==
    LET mu == 4 * distance_origin + 2 * length_region
    IN  IF length_region = 0 THEN {mu}
        ELSE {mu}
             \cup {4 * distance_origin + d : d \in -DrawWindow..DrawWindow}
             \cup {4 * (distance_origin + length_region) + d :
                       d \in -DrawWindow..DrawWindow}

(* Entering _get_random_point_in_region: `sigma = (mu - origin) / edge_sigma`
   of the first _impl_get_point call raises ZeroDivisionError when
   edge_sigma = 0; otherwise the x loop starts. *)
EnterSampler(edge_sigma) ==
    IF edge_sigma = 0
    THEN /\ outcome' = "ZeroDivisionError"
         /\ pc' = "idle"
    ELSE /\ outcome' = "none"
         /\ pc' = "sample_x"

(* edge_sigma <= 0.0, line 228 *)
EdgeSigmaRejected_Strict(edge_sigma) == edge_sigma < 0

EdgeSigmaRejected(edge_sigma) == edge_sigma <= 0

Lefts == {-1, 0, viewport_size.width - 1, viewport_size.width}
Tops == {-1, 0, viewport_size.height - 1}
Widths == (0..MaxExtent) \cup {viewport_size.width + 1}
Heights == (0..(MaxExtent - 1)) \cup {viewport_size.height + 1}
EdgeSigmas == {-20, 0, 20}

(* arguments of the direct calls of the sampler, which validates nothing *)
SamplerLefts == {-1, 0}
SamplerTops == {0}
SamplerWidths == -1..MaxExtent
SamplerHeights == 1..(MaxExtent - 1)

RegionArgs(left, top, width, height, edge_sigma) ==
    [left |-> left, top |-> top, width |-> width, height |-> height,
     edge_sigma |-> edge_sigma]

(* DesktopBrowser.click_region up to the call of the sampler *)
ClickRegion(left, top, width, height, edge_sigma) ==
    /\ Ready
    /\ opname' = "click_region"
    /\ args' = RegionArgs(left, top, width, height, edge_sigma)
    /\ calls' = <<>>
    /\ p' = NoValue /\ x' = NoValue /\ y' = NoValue
    /\ IF ~validate_region(left, top, width, height)
       THEN outcome' = "RuntimeError: invalid area" /\ pc' = "idle"
       ELSE IF EdgeSigmaRejected(edge_sigma)
       THEN outcome' = "RuntimeError: invalid edge sigma" /\ pc' = "idle"
       ELSE EnterSampler(edge_sigma)
    /\ UNCHANGED <<constructed, viewport_size, windowVars, presVars>>

(* a direct call of _get_random_point_in_region *)
GetRandomPoint(left, top, width, height, edge_sigma) ==
    /\ Ready
    /\ opname' = "_get_random_point_in_region"
    /\ args' = RegionArgs(left, top, width, height, edge_sigma)
    /\ calls' = <<>>
    /\ p' = NoValue /\ x' = NoValue /\ y' = NoValue
    /\ EnterSampler(edge_sigma)
    /\ UNCHANGED <<constructed, viewport_size, windowVars, presVars>>

(* one iteration of the loop of _impl_get_point(left, width) *)
SampleX(v) ==
    /\ pc = "sample_x"
    /\ v \in Draws(args.left, args.width)
    /\ IF Inside(args.left, args.width, Round(v))
       THEN /\ x' = <<Round(v)>>
            /\ p' = NoValue
            /\ pc' = "sample_y"
       ELSE /\ p' = <<Round(v)>>
            /\ UNCHANGED <<x, pc>>
    /\ UNCHANGED <<constructed, viewport_size, opname, args, outcome, calls,
                   y, windowVars, presVars>>

(* one iteration of the loop of _impl_get_point(top, height); on exit the
   sampler returns (x, y) and click_region clicks there *)
SampleY(v) ==
    /\ pc = "sample_y"
    /\ v \in Draws(args.top, args.height)
    /\ IF Inside(args.top, args.height, Round(v))
       THEN /\ y' = <<Round(v)>>
            /\ p' = NoValue
            /\ pc' = "idle"
            /\ outcome' = "returned"
            /\ calls' = IF opname = "click_region"
                        THEN << <<"mouse.click", x[1], Round(v)>> >>
                        ELSE <<>>
       ELSE /\ p' = <<Round(v)>>
            /\ UNCHANGED <<y, pc, outcome, calls>>
    /\ UNCHANGED <<constructed, viewport_size, opname, args, x,
                   windowVars, presVars>>

AllDraws ==
    IF pc = "sample_x" THEN Draws(args.left, args.width)
    ELSE IF pc = "sample_y" THEN Draws(args.top, args.height)
    ELSE {}

----------------------------------------------------------------------------
InitWindowIdle ==
    /\ platform = "Windows" /\ allWindows = <<>> /\ window = NoValue

InitPresIdle ==
    /\ presentation = 1
    /\ variant = [i \in 1..MaxPresentations |-> "absent"]
    /\ new_presentation = [i \in 1..MaxPresentations |-> 0]
    /\ operation_list = [i \in 1..MaxPresentations |-> "None"]
    /\ callerPc = "off"

InitDriverIdle ==
    /\ constructed = "no"
    /\ viewport_size = [width |-> 0, height |-> 0]
    /\ opname = "none" /\ args = NoArgs /\ outcome = "none" /\ calls = <<>>
    /\ pc = "idle" /\ p = NoValue /\ x = NoValue /\ y = NoValue

(* DesktopBrowser.__init__ alone, from the unconstructed object *)
InitViewport == InitDriverIdle /\ InitWindowIdle /\ InitPresIdle

NextViewport ==
    \E w \in ViewportWidths, h \in ViewportHeights : Construct(w, h)

SpecViewport == InitViewport /\ [][NextViewport]_vars

(* The driver after a successful construction, with the default viewport
   or the smallest one *)
InitViewports ==
    { v \in { [width |-> STD_WIDTH, height |-> STD_HEIGHT],
              [width |-> MIN_WIDTH, height |-> MIN_HEIGHT] } :
        validate_viewport_size(v.width, v.height) }

Init ==
    /\ constructed = "yes"
    /\ viewport_size \in InitViewports
    /\ opname = "__init__" /\ args = viewport_size /\ outcome = "returned"
    /\ calls = << <<"chromium.launch">>,
                  <<"browser.new_context", viewport_size.width,
                    viewport_size.height>>,
                  <<"context.new_page">>, <<"page.goto">> >>
    /\ pc = "idle" /\ p = NoValue /\ x = NoValue /\ y = NoValue
    /\ InitWindowIdle /\ InitPresIdle

Next ==
    \/ \E k \in KeyNames : Press([isStr |-> TRUE, val |-> k])
    \/ \E ks \in KeyLists : Press([isStr |-> FALSE, val |-> ks])
    \/ \E ks \in KeyLists : PressHotkey(ks)
    \/ \E c \in -MaxClicks..MaxClicks : Scroll(c)
    \/ \E l \in Lefts, t \in Tops, w \in Widths, h \in Heights,
          s \in EdgeSigmas : ClickRegion(l, t, w, h, s)
    \/ \E l \in SamplerLefts, t \in SamplerTops, w \in SamplerWidths,
          h \in SamplerHeights, s \in EdgeSigmas :
              GetRandomPoint(l, t, w, h, s)
    \/ \E v \in AllDraws : SampleX(v)
    \/ \E v \in AllDraws : SampleY(v)

Spec == Init /\ [][Next]_vars

(* The sampler's loops keep iterating, and the draws are fair: a value the
   loop accepts has positive probability, so a loop that can exit does not
   run forever *)
LoopX == \E v \in AllDraws : SampleX(v)
LoopY == \E v \in AllDraws : SampleY(v)
AcceptX == \E v \in AllDraws : SampleX(v) /\ pc' = "sample_y"
AcceptY == \E v \in AllDraws : SampleY(v) /\ pc' = "idle"

FairSpec ==
    /\ Spec
    /\ WF_vars(LoopX) /\ WF_vars(LoopY)
    /\ SF_vars(AcceptX) /\ SF_vars(AcceptY)

----------------------------------------------------------------------------
(* BrowserBase.is_singleton.  A window is represented by its title, a      *)
(* title by the sequence of its characters.                                *)

TITLE_MAJSOUL == <<"j", "t">>

WindowTitles ==
    { TITLE_MAJSOUL, TITLE_MAJSOUL \o <<"!">>, <<"j">>, <<"x", "j", "t">> }

Platforms == {"Windows", "Linux"}

(* the attributes a str has, among the two names at stake *)
StrAttributes == {"startswith"}

(* the attribute looked up on w.title in the comprehension, line 69 *)
TitleTest == "startwith"

StartsWith(title, prefix) ==
    /\ Len(title) >= Len(prefix)
    /\ SubSeq(title, 1, Len(prefix)) = prefix

(* the list comprehension of lines 67-70: the attribute lookup is made for
   the first window enumerated *)
ComprehensionRaises == Len(allWindows) > 0 /\ TitleTest \notin StrAttributes

MatchingWindows == SelectSeq(allWindows, LAMBDA t : StartsWith(t, TITLE_MAJSOUL))

is_singleton ==
    /\ opname' = "is_singleton"
    /\ IF platform = "Windows"
       THEN IF window = NoValue
            THEN IF ComprehensionRaises
                 THEN outcome' = "AttributeError" /\ UNCHANGED window
                 ELSE IF Len(MatchingWindows) = 0
                 THEN outcome' = "RuntimeError: no window"
                      /\ UNCHANGED window
                 ELSE IF Len(MatchingWindows) > 1
                 THEN outcome' = "RuntimeError: multiple windows"
                      /\ UNCHANGED window
                 ELSE outcome' = "returned"
                      /\ window' = <<MatchingWindows[1]>>
            ELSE outcome' = "returned" /\ UNCHANGED window
       ELSE outcome' = "NotImplementedError" /\ UNCHANGED window
    /\ UNCHANGED <<constructed, viewport_size, args, calls, pc, p, x, y,
                   platform, allWindows, presVars>>

InitWindow ==
    /\ InitDriverIdle /\ InitPresIdle
    /\ platform \in Platforms
    /\ allWindows \in SeqsUpTo(WindowTitles, MaxWindows)
    /\ window = NoValue

NextWindow == is_singleton

SpecWindow == InitWindow /\ [][NextWindow]_vars

----------------------------------------------------------------------------
(* The match loop of examples/moqie.py (lines 90-120) run against a        *)
(* Presentation.  Presentation instances are numbered in order of          *)
(* creation; 0 stands for None in new_presentation.                        *)

Ids == 1..MaxPresentations

OperationLists == {"None", "dapai", "other"}

Successors(v) ==
    IF v = "Match" THEN {"Match", "RoomHost"}
    ELSE IF v = "RoomHost" THEN {"Match", "Home"}
    ELSE {"RoomHost"}

Blocked == {"in_select_operation", "in_wait", "in_leave"}

(* lines 91-103: an operation list is present, commit a choice *)
CallSelectOperation ==
    /\ callerPc = "loop"
    /\ operation_list[presentation] # "None"
    /\ callerPc' = "in_select_operation"
    /\ UNCHANGED <<presentation, variant, new_presentation, operation_list,
                   driverVars, windowVars>>

(* lines 104-105 *)
CallWait ==
    /\ callerPc = "loop"
    /\ operation_list[presentation] = "None"
    /\ callerPc' = "in_wait"
    /\ UNCHANGED <<presentation, variant, new_presentation, operation_list,
                   driverVars, windowVars>>

(* the slot of instance i may be written *)
SlotWritable_Always(i) == TRUE

SlotWritable(i) == new_presentation[i] = 0

(* the correlation layer deposits the successor of instance i *)
Deliver(i, v, ops) ==
    /\ variant[i] # "absent"
    /\ SlotWritable(i)
    /\ v \in Successors(variant[i])
    /\ \E j \in Ids :
          /\ variant[j] = "absent"
          /\ \A k \in Ids : k < j => variant[k] # "absent"
          /\ variant' = [variant EXCEPT ![j] = v]
          /\ operation_list' =
                 [operation_list EXCEPT
                      ![j] = IF v = "Match" THEN ops ELSE "None"]
          /\ new_presentation' = [new_presentation EXCEPT ![i] = j]
    /\ UNCHANGED <<presentation, callerPc, driverVars, windowVars>>

AfterCall(c) == IF c = "in_leave" THEN "check_leave" ELSE "check"

(* a blocked call returns once the successor is there *)
Return ==
    /\ callerPc \in Blocked
    /\ new_presentation[presentation] # 0
    /\ callerPc' = AfterCall(callerPc)
    /\ UNCHANGED <<presentation, variant, new_presentation, operation_list,
                   driverVars, windowVars>>

(* the timeout of a blocked call elapses with no successor: wait returns,
   a mutating action fails with TransitionTimeout *)
Timeout ==
    /\ callerPc \in Blocked
    /\ new_presentation[presentation] = 0
    /\ callerPc' = IF callerPc = "in_wait" THEN "check" ELSE "raised"
    /\ UNCHANGED <<presentation, variant, new_presentation, operation_list,
                   driverVars, windowVars>>

(* lines 107-113 *)
Follow ==
    /\ callerPc = "check"
    /\ IF new_presentation[presentation] # 0
       THEN /\ presentation' = new_presentation[presentation]
            /\ callerPc' =
                 IF variant[new_presentation[presentation]] = "Match"
                 THEN "loop"
                 ELSE IF variant[new_presentation[presentation]] = "RoomHost"
                 THEN "at_leave"
                 ELSE "raised"
       ELSE /\ callerPc' = "loop"
            /\ UNCHANGED presentation
    /\ UNCHANGED <<variant, new_presentation, operation_list,
                   driverVars, windowVars>>

(* line 115 *)
CallLeave ==
    /\ callerPc = "at_leave"
    /\ callerPc' = "in_leave"
    /\ UNCHANGED <<presentation, variant, new_presentation, operation_list,
                   driverVars, windowVars>>

(* lines 117-120 *)
CheckLeave ==
    /\ callerPc = "check_leave"
    /\ IF new_presentation[presentation] = 0
       THEN callerPc' = "raised" /\ UNCHANGED presentation
       ELSE callerPc' = "done"
            /\ presentation' = new_presentation[presentation]
    /\ UNCHANGED <<variant, new_presentation, operation_list,
                   driverVars, windowVars>>

InitPresentation ==
    /\ InitDriverIdle /\ InitWindowIdle
    /\ presentation = 1
    /\ variant = [i \in Ids |-> IF i = 1 THEN "Match" ELSE "absent"]
    /\ new_presentation = [i \in Ids |-> 0]
    /\ \E ops \in OperationLists :
          operation_list = [i \in Ids |-> IF i = 1 THEN ops ELSE "None"]
    /\ callerPc = "loop"

NextPresentation ==
    \/ CallSelectOperation
    \/ CallWait
    \/ \E i \in Ids, v \in {"Match", "RoomHost", "Home"},
          ops \in OperationLists : Deliver(i, v, ops)
    \/ Return
    \/ Timeout
    \/ Follow
    \/ CallLeave
    \/ CheckLeave

SpecPresentation == InitPresentation /\ [][NextPresentation]_vars

----------------------------------------------------------------------------
(* Properties *)

SamplerOps == {"click_region", "_get_random_point_in_region"}

(* what the claims call a valid region, stated on the arguments *)
RegionOutside(a) ==
    \/ a.left < 0 \/ a.top < 0
    \/ a.width <= 0 \/ a.height <= 0
    \/ a.left + a.width > viewport_size.width
    \/ a.top + a.height > viewport_size.height

StrictlyInside(a, px, py) ==
    /\ a.left < px /\ px < a.left + a.width
    /\ a.top < py /\ py < a.top + a.height

(* C1: the viewport validator returns true exactly for the pairs with
   1280 <= width <= 3840, 720 <= height <= 2160 and width : height = 16 : 9
   exactly, and construction raises exactly for the other pairs. *)
C1_ViewportValidation ==
    opname = "__init__" =>
        LET w  == args.width
            h  == args.height
            ok == /\ 1280 <= w /\ w <= 3840
                  /\ 720 <= h /\ h <= 2160
                  /\ 9 * w = 16 * h
        IN  /\ validate_viewport_size(w, h) = ok
            /\ (outcome = "returned") = ok
            /\ (outcome = "RuntimeError: viewport") = ~ok
            /\ (constructed = "yes") = ok

C1_Witness ==
    /\ opname = "__init__"
    /\ args.width = 1280 /\ args.height = 720
    /\ outcome = "returned"
    /\ viewport_size = args

(* C2: click_region on a region with a negative origin, a non-positive
   extent, or reaching past the viewport fails with the invalid-region
   error and issues no engine call. *)
C2_InvalidRegionRejected ==
    (opname = "click_region" /\ RegionOutside(args)) =>
        /\ outcome = "RuntimeError: invalid area"
        /\ calls = <<>>
        /\ pc = "idle"
        /\ x = NoValue /\ y = NoValue

C2_Witness ==
    /\ opname = "click_region"
    /\ args.left >= 0 /\ args.top >= 0
    /\ args.width > 0 /\ args.height > 0
    /\ args.left < viewport_size.width
    /\ args.left + args.width > viewport_size.width
    /\ args.edge_sigma > 0
    /\ outcome = "RuntimeError: invalid area"

(* C3, as stated: an edge_sigma <= 0 always fails, in click_region and in a
   direct call of the sampler alike; no point is returned, no click made. *)
C3_EdgeSigmaAlwaysFails ==
    (opname \in SamplerOps /\ args.edge_sigma <= 0 /\ pc = "idle") =>
        /\ outcome \notin {"returned", "none"}
        /\ calls = <<>>
        /\ x = NoValue /\ y = NoValue

(* C3, amended: click_region with edge_sigma <= 0 always fails with a
   RuntimeError (the edge-sigma error when the region is valid, the
   invalid-region error otherwise), samples no point and clicks nowhere;
   the sampler called directly validates nothing: edge_sigma = 0 fails with
   ZeroDivisionError, edge_sigma < 0 samples, and a point it returns is
   strictly inside the region. *)
C3_EdgeSigmaAmended ==
    (opname \in SamplerOps /\ args.edge_sigma <= 0) =>
        IF opname = "click_region"
        THEN /\ outcome = IF RegionOutside(args)
                          THEN "RuntimeError: invalid area"
                          ELSE "RuntimeError: invalid edge sigma"
             /\ pc = "idle" /\ calls = <<>>
             /\ x = NoValue /\ y = NoValue
        ELSE IF args.edge_sigma = 0
        THEN /\ outcome = "ZeroDivisionError"
             /\ pc = "idle" /\ calls = <<>>
             /\ x = NoValue /\ y = NoValue
        ELSE /\ outcome \in {"none", "returned"}
             /\ calls = <<>>
             /\ outcome = "returned" =>
                    /\ x # NoValue /\ y # NoValue
                    /\ StrictlyInside(args, x[1], y[1])

C3_Witness ==
    /\ opname = "click_region"
    /\ ~RegionOutside(args)
    /\ args.edge_sigma = 0
    /\ outcome = "RuntimeError: invalid edge sigma"
    /\ calls = <<>>

(* C4: with edge_sigma > 0, every coordinate the sampler has settled on is
   strictly inside its axis of the region, a returned point is strictly
   inside the region, and click_region clicks exactly there. *)
C4_PointStrictlyInside ==
    (opname \in SamplerOps /\ args.edge_sigma > 0) =>
        /\ x # NoValue =>
               (args.left < x[1] /\ x[1] < args.left + args.width)
        /\ y # NoValue =>
               (args.top < y[1] /\ y[1] < args.top + args.height)
        /\ outcome = "returned" =>
               /\ x # NoValue /\ y # NoValue
               /\ StrictlyInside(args, x[1], y[1])
               /\ calls = IF opname = "click_region"
                          THEN << <<"mouse.click", x[1], y[1]>> >>
                          ELSE <<>>
        /\ outcome # "returned" => calls = <<>>

C4_Witness ==
    /\ opname = "click_region"
    /\ outcome = "returned"
    /\ args.width = 2 /\ args.height = 2
    /\ calls = << <<"mouse.click", args.left + 1, args.top + 1>> >>

(* C5: with fair draws, click_region on a valid region with edge_sigma > 0
   (the sampler has been entered) eventually returns having issued exactly
   one mouse click. *)
C5_ClickRegionCompletes ==
    (opname = "click_region" /\ pc = "sample_x")
        ~> (/\ opname = "click_region" /\ pc = "idle"
            /\ outcome = "returned"
            /\ Len(calls) = 1 /\ calls[1][1] = "mouse.click")

(* C6: scroll(clicks) issues abs(clicks) wheel events, all with horizontal
   delta 0 and the same vertical delta of 116 signed like clicks, and
   abs(clicks) - 1 pauses, each between two wheel events; nothing else. *)
C6_ScrollEvents ==
    opname = "scroll" =>
        LET c      == args.clicks
            n      == IF c < 0 THEN -c ELSE c
            wheels == {i \in DOMAIN calls : calls[i][1] = "mouse.wheel"}
            pauses == {i \in DOMAIN calls : calls[i][1] = "time.sleep"}
        IN  /\ outcome = "returned"
            /\ Cardinality(wheels) = n
            /\ Cardinality(pauses) = IF n = 0 THEN 0 ELSE n - 1
            /\ Len(calls) = Cardinality(wheels) + Cardinality(pauses)
            /\ \A i \in wheels :
                  /\ calls[i][2] = 0
                  /\ calls[i][3] = IF c > 0 THEN 116 ELSE -116
            /\ \A i \in pauses :
                  /\ 1 < i /\ i < Len(calls)
                  /\ (i - 1) \in wheels /\ (i + 1) \in wheels

C6_Witness ==
    /\ opname = "scroll"
    /\ args.clicks = -2
    /\ calls = << <<"mouse.wheel", 0, -116>>, <<"time.sleep">>,
                  <<"mouse.wheel", 0, -116>> >>

RECURSIVE Offset(_, _)
Offset(ks, i) ==
    IF i = 1 THEN 0 ELSE Offset(ks, i - 1) + Len(ks[i - 1]) + 1

(* s is the strings of ks in order with one "+" between neighbours *)
IsJoined(s, ks) ==
    IF Len(ks) = 0 THEN s = <<>>
    ELSE /\ Len(s) = Offset(ks, Len(ks) + 1) - 1
         /\ \A i \in 1..Len(ks) :
               /\ SubSeq(s, Offset(ks, i) + 1, Offset(ks, i) + Len(ks[i]))
                      = ks[i]
               /\ i < Len(ks) => s[Offset(ks, i) + Len(ks[i]) + 1] = "+"

(* C10: press issues one key press per key in the order given, a str being
   one key pressed whole; press_hotkey issues one press of the keys joined
   by "+". *)
C10_PressCalls ==
    /\ opname = "press" =>
          /\ outcome = "returned"
          /\ IF args.keys.isStr
             THEN calls = << <<"keyboard.press", args.keys.val>> >>
             ELSE /\ Len(calls) = Len(args.keys.val)
                  /\ \A i \in 1..Len(calls) :
                        calls[i] = <<"keyboard.press", args.keys.val[i]>>
    /\ opname = "press_hotkey" =>
          /\ outcome = "returned"
          /\ Len(calls) = 1
          /\ calls[1][1] = "keyboard.press"
          /\ IsJoined(calls[1][2], args.keys)

C10_Witness ==
    /\ opname = "press"
    /\ args.keys.isStr
    /\ Len(args.keys.val) > 1
    /\ Len(calls) = 1

(* C8: is_singleton raises a RuntimeError when no window or several windows
   have a title starting with TITLE_MAJSOUL, returns with that window bound
   when exactly one has, and raises NotImplementedError off Windows. *)
C8_IsSingletonContract ==
    opname = "is_singleton" =>
        LET m == {i \in DOMAIN allWindows :
                      StartsWith(allWindows[i], TITLE_MAJSOUL)}
        IN  IF platform # "Windows"
            THEN outcome = "NotImplementedError" /\ window = NoValue
            ELSE IF Cardinality(m) = 1
            THEN /\ outcome = "returned"
                 /\ \E i \in m : window = <<allWindows[i]>>
            ELSE /\ outcome \in {"RuntimeError: no window",
                                 "RuntimeError: multiple windows"}
                 /\ window = NoValue

(* C9: the successor slot of a Presentation is written at most once, from
   None to a successor, and never by a step of the caller. *)
C9_SuccessorWriteOnce ==
    [][ /\ \A i \in Ids :
              new_presentation[i] # 0 =>
                  new_presentation'[i] = new_presentation[i]
        /\ (callerPc' # callerPc \/ presentation' # presentation) =>
                  new_presentation' = new_presentation ]_vars

C9_Witness ==
    /\ callerPc = "loop"
    /\ presentation # 1
    /\ new_presentation[1] # 0
    /\ \E i \in Ids : new_presentation[i] = presentation

====
